---- MODULE Spec2Model ----
(***************************************************************************)
(* Upstream version resolution and recipe synchronization of meso-forge.   *)
(*                                                                         *)
(* Two machines share this module:                                         *)
(*   Spec        main() of .scripts/version_ctl.py processing a batch of   *)
(*               recipe files (update_recipe, update_recipe_source).       *)
(*   SpecSelect  the candidate filtering and "latest" selection of the     *)
(*               resolvers, applied to bounded lists of tags.              *)
(*                                                                         *)
(* Text is modelled as sequences of one-character strings, so that string  *)
(* order and semantic-version order are computed and can disagree.         *)
(* Version texts of the model contain digits and dots only: semantic       *)
(* versions with a pre-release or build part are outside the model.        *)
(***************************************************************************)
EXTENDS Integers, Sequences, FiniteSets, TLC

\* ------------------------------------------------------------------------
\* Bounds of the model
\* ------------------------------------------------------------------------

\* Number of recipe files in the batch handed to main.
NumRecipes == 2

\* ------------------------------------------------------------------------
\* Text: Python str values as sequences of characters
\* ------------------------------------------------------------------------

\* The characters of the model in code point order.
CodeOrder ==
  << "-", ".", "0", "1", "2", "3", "4", "5", "6", "7", "8", "9",
     "V", "_", "a", "b", "c", "d", "e", "f", "g", "h", "i", "j", "k", "l",
     "m", "n", "o", "p", "q", "r", "s", "t", "u", "v", "w", "x", "y", "z" >>

Ord(c) == CHOOSE i \in 1..Len(CodeOrder) : CodeOrder[i] = c

Digits == {"0", "1", "2", "3", "4", "5", "6", "7", "8", "9"}

IsDigit(c) == c \in Digits

DigitVal(c) == Ord(c) - Ord("0")

\* Python's a < b on str: lexicographic by code point, a proper prefix first.
RECURSIVE StrLess(_, _)
StrLess(a, b) ==
  IF b = <<>> THEN FALSE
  ELSE IF a = <<>> THEN TRUE
  ELSE IF Head(a) = Head(b) THEN StrLess(Tail(a), Tail(b))
  ELSE Ord(Head(a)) < Ord(Head(b))

\* Python's a >= b on str.
StrGreaterEq(a, b) == ~StrLess(a, b)

\* s.startswith(p)
StartsWith(s, p) == Len(p) <= Len(s) /\ SubSeq(s, 1, Len(p)) = p

\* s[n:]
DropFirst(s, n) == SubSeq(s, n + 1, Len(s))

\* s.endswith(p)
EndsWith(s, p) == Len(p) <= Len(s) /\ SubSeq(s, Len(s) - Len(p) + 1, Len(s)) = p

\* s.find(n) + 1: where n first occurs in s, 0 when it does not.
IndexOf(s, n) ==
  LET at == {i \in 1..(Len(s) - Len(n) + 1) : SubSeq(s, i, i + Len(n) - 1) = n}
  IN IF at = {} THEN 0 ELSE CHOOSE i \in at : \A k \in at : i <= k

\* n in s
Contains(s, n) == IndexOf(s, n) # 0

RECURSIVE Split(_, _)
\* s.split(sep)
Split(s, sep) ==
  LET i == IndexOf(s, sep) IN
  IF i = 0 THEN <<s>>
  ELSE <<SubSeq(s, 1, i - 1)>> \o Split(DropFirst(s, i + Len(sep) - 1), sep)

\* The longest prefix of s made of digits (what \d+ consumes, possibly empty).
RECURSIVE DigitRun(_)
DigitRun(s) ==
  IF s = <<>> \/ ~IsDigit(Head(s)) THEN <<>>
  ELSE <<Head(s)>> \o DigitRun(Tail(s))

\* int() of a run of digits.
RECURSIVE ToInt(_)
ToInt(ds) ==
  IF ds = <<>> THEN 0
  ELSE 10 * ToInt(SubSeq(ds, 1, Len(ds) - 1)) + DigitVal(ds[Len(ds)])

\* ------------------------------------------------------------------------
\* semver: VersionInfo.parse and compare, on MAJOR.MINOR.PATCH texts
\* ------------------------------------------------------------------------

\* A numeric identifier of a semantic version: digits without a leading zero.
NumericId(ds) == ds # <<>> /\ (Len(ds) = 1 \/ Head(ds) # "0")

\* The three numeric parts of s as digit runs, or <<>> when s is not
\* MAJOR.MINOR.PATCH (semver.VersionInfo.parse raises ValueError).
SemverParts(s) ==
  LET a  == DigitRun(s)
      r1 == DropFirst(s, Len(a))
      b  == IF r1 # <<>> /\ Head(r1) = "." THEN DigitRun(Tail(r1)) ELSE <<>>
      r2 == IF r1 = <<>> THEN <<>> ELSE DropFirst(r1, 1 + Len(b))
      c  == IF r2 # <<>> /\ Head(r2) = "." THEN DigitRun(Tail(r2)) ELSE <<>>
      r3 == IF r2 = <<>> THEN <<>> ELSE DropFirst(r2, 1 + Len(c))
  IN  IF NumericId(a) /\ NumericId(b) /\ NumericId(c) /\ r3 = <<>>
      THEN <<a, b, c>> ELSE <<>>

\* Whether semver.VersionInfo.parse(s) succeeds.
SemverValid(s) == SemverParts(s) # <<>>

\* The comparison key of a valid semantic version.
SemverKey(s) ==
  LET p == SemverParts(s) IN <<ToInt(p[1]), ToInt(p[2]), ToInt(p[3])>>

\* Order of two keys: -1, 0 or 1.
KeyCompare(x, y) ==
  IF x[1] # y[1] THEN (IF x[1] < y[1] THEN -1 ELSE 1)
  ELSE IF x[2] # y[2] THEN (IF x[2] < y[2] THEN -1 ELSE 1)
  ELSE IF x[3] # y[3] THEN (IF x[3] < y[3] THEN -1 ELSE 1)
  ELSE 0

\* semver.compare(a, b) for two valid versions.
SemverCompare(a, b) == KeyCompare(SemverKey(a), SemverKey(b))

\* ------------------------------------------------------------------------
\* Version texts used by the model
\* ------------------------------------------------------------------------

V100  == <<"1", ".", "0", ".", "0">>
V120  == <<"1", ".", "2", ".", "0">>
V1100 == <<"1", ".", "1", "0", ".", "0">>
V11   == <<"1", ".", "1">>

\* Python None or "" where a str is expected: both are falsy.
NoVer == <<>>

\* ------------------------------------------------------------------------
\* Recipe descriptors: what yaml.safe_load returns for a recipe file
\* ------------------------------------------------------------------------

\* The texts URLs are made of, one character per element.
Https ==
  <<"h", "t", "t", "p", "s", ":", "/", "/">>

GithubCom ==
  <<"g", "i", "t", "h", "u", "b", ".", "c", "o", "m">>

DotGit ==
  <<".", "g", "i", "t">>

DotTgz ==
  <<".", "t", "g", "z">>

\* A URL is a sequence of segments: literal text, one of the two version
\* placeholders, or the text of a version.
Lit(t) == [kind |-> "lit", text |-> t, ver |-> <<>>]

VerSeg(v) == [kind |-> "ver", text |-> v, ver |-> v]

PhDollar ==
  [kind |-> "${{ version }}",
   text |-> <<"$", "{", "{", " ", "v", "e", "r", "s", "i", "o", "n", " ", "}", "}">>,
   ver |-> <<>>]

PhPlain ==
  [kind |-> "{{ version }}",
   text |-> <<"{", "{", " ", "v", "e", "r", "s", "i", "o", "n", " ", "}", "}">>,
   ver |-> <<>>]

RECURSIVE UrlText(_)
\* The characters of a URL.
UrlText(url) == IF url = <<>> THEN <<>> ELSE Head(url).text \o UrlText(Tail(url))

\* str.replace(placeholder, version) on a URL.
ReplacePlaceholder(url, ph, v) ==
  [i \in DOMAIN url |-> IF url[i].kind = ph THEN VerSeg(v) ELSE url[i]]

\* The download URL for version v:
\* source_url.replace("${{ version }}", v).replace("{{ version }}", v)
ExpandUrl(url, v) ==
  ReplacePlaceholder(ReplacePlaceholder(url, "${{ version }}", v),
                     "{{ version }}", v)

\* The digest of the bytes served at a literal URL; no digest is NoHash.
Sha256(url) == [digest_of |-> url]

NoHash == [digest_of |-> <<>>]

\* A source mapping: its keys, the value of url (or git), and the mapping
\* under then when it is a conditional.
Mapping(keys, url) == [is_dict |-> TRUE, keys |-> keys, url |-> url, then |-> <<>>]

Conditional(inner) ==
  [is_dict |-> TRUE, keys |-> {"if", "then"}, url |-> <<>>, then |-> <<inner>>]

\* A source list item that is not a mapping (a plain string).
NonDict == [is_dict |-> FALSE, keys |-> {}, url |-> <<>>, then |-> <<>>]

UrlA == <<Lit(Https \o GithubCom \o <<"/", "x", "/", "a", "/">>), PhDollar, Lit(DotTgz)>>

UrlB == <<Lit(Https \o GithubCom \o <<"/", "x", "/", "b", "/">>), PhPlain, Lit(DotTgz)>>

UrlC == <<Lit(Https \o GithubCom \o <<"/", "x", "/", "c", "/">>), VerSeg(V120), Lit(DotTgz)>>

UrlG == <<Lit(Https \o GithubCom \o <<"/", "x", "/", "g">> \o DotGit)>>

\* https://x/pkg-${{ version }}.tgz: a host no mode is detected for.
UrlX == <<Lit(Https \o <<"x", "/", "p", "k", "g", "-">>), PhDollar, Lit(DotTgz)>>

UnwrapMut(source) == source

\* if 'if' in source: source = source['then']
Unwrap(source) == IF "if" \in source.keys THEN source.then[1] ELSE source

\* One recipe file: whether it parses, which required section is missing,
\* package.name, the shape of source, its entries and context.version; and
\* the latest version conda-forge holds for the package (NoVer: not there).
Recipe(yaml_ok, missing, name, kind, sources, version, conda) ==
  [yaml_ok |-> yaml_ok, missing |-> missing, name |-> name, kind |-> kind,
   sources |-> sources, version |-> version, conda |-> conda]

UrlSrcA == Mapping({"url", "sha256"}, UrlA)

UrlSrcB == Mapping({"url", "sha256"}, UrlB)

Descriptors ==
  { Recipe(TRUE, "", "tmpl", "dict", <<UrlSrcA>>, V120, V1100),
    Recipe(TRUE, "", "literal", "dict", <<Mapping({"url", "sha256"}, UrlC)>>, V120, V120),
    Recipe(TRUE, "", "multi", "list", <<UrlSrcA, Conditional(UrlSrcB)>>, V100, NoVer),
    Recipe(TRUE, "", "mixed", "list",
           <<NonDict, Mapping({"path"}, <<>>), Mapping({"about"}, <<>>),
             Conditional(Mapping({"path"}, <<>>)),
             Conditional(Mapping({"git", "rev"}, UrlG))>>, V100, NoVer),
    Recipe(TRUE, "", "git", "dict", <<Mapping({"git", "rev"}, UrlG)>>, V11, V120),
    Recipe(TRUE, "context.version", "nover", "dict", <<UrlSrcA>>, NoVer, NoVer),
    Recipe(TRUE, "package.name", "", "dict", <<UrlSrcA>>, V100, NoVer),
    Recipe(TRUE, "", "scalar", "other", <<>>, V100, NoVer),
    Recipe(TRUE, "", "nosha", "dict", <<Mapping({"url"}, UrlA)>>, V120, NoVer),
    Recipe(TRUE, "", "other", "dict", <<Mapping({"url", "sha256"}, UrlX)>>, V100, NoVer),
    Recipe(FALSE, "", "broken", "dict", <<>>, NoVer, NoVer) }

\* The content of a recipe file that matters here: context.version and, per
\* source entry, the url text and the sha256 text.
FileOf(d) ==
  [version |-> d.version,
   url |-> [j \in 1..Len(d.sources) |-> Unwrap(d.sources[j]).url],
   sha |-> [j \in 1..Len(d.sources) |->
             IF "sha256" \in Unwrap(d.sources[j]).keys
             THEN Sha256(ExpandUrl(Unwrap(d.sources[j]).url, d.version))
             ELSE NoHash]]

\* ------------------------------------------------------------------------
\* UpdateStats
\* ------------------------------------------------------------------------

NewStats ==
  [total_packages |-> 0, packages_on_conda_forge |-> 0,
   packages_not_on_conda_forge |-> 0, packages_updated |-> 0,
   packages_up_to_date |-> 0, packages_with_errors |-> 0,
   error_details |-> <<>>, conda_forge_newer |-> 0, upstream_newer |-> 0,
   unsupported_sources |-> 0]

AddError(st, who, msg) ==
  [st EXCEPT !.packages_with_errors = @ + 1,
             !.error_details = Append(@, <<who, msg>>)]

Bump(st, counter) == [st EXCEPT ![counter] = @ + 1]

\* ------------------------------------------------------------------------
\* Decisions taken by main and update_recipe_source
\* ------------------------------------------------------------------------

DryRunMut(a) == IF a.update THEN FALSE ELSE TRUE

\* The dry_run flag main passes on: --dry-run first, then --update, else check.
DryRun(a) == IF a.dry_run THEN TRUE ELSE IF a.update THEN FALSE ELSE TRUE

\* The comparison of current and upstream version: equality, then
\* semver.compare(current, upstream) >= 0, and when that raises, the string
\* comparison current >= upstream.
UpToDate(current, upstream) ==
  IF current = upstream THEN TRUE
  ELSE IF SemverValid(current) /\ SemverValid(upstream)
       THEN SemverCompare(current, upstream) >= 0
       ELSE StrGreaterEq(current, upstream)

\* Whether the conda-forge latest counts as newer; a raise counts as no.
CondaNewer(latest, current) ==
  latest # NoVer /\ SemverValid(latest) /\ SemverValid(current)
  /\ SemverCompare(latest, current) > 0

CondaCountersMut(st, latest_conda, current) ==
  LET st1 == IF latest_conda # NoVer
             THEN Bump(st, "packages_on_conda_forge")
             ELSE Bump(st, "packages_not_on_conda_forge")
  IN IF CondaNewer(latest_conda, current)
     THEN Bump(Bump(st1, "conda_forge_newer"), "packages_up_to_date") ELSE st1

\* The statistics after the conda-forge block: the package is counted as on
\* conda-forge or not, and conda_forge_newer when the latest there is newer.
CondaCounters(st, latest_conda, current) ==
  LET st1 == IF latest_conda # NoVer
             THEN Bump(st, "packages_on_conda_forge")
             ELSE Bump(st, "packages_not_on_conda_forge")
  IN IF CondaNewer(latest_conda, current) THEN Bump(st1, "conda_forge_newer") ELSE st1

HashObtainedMut(new_hash) == TRUE

HashGateInverted(new_hash) == new_hash = NoHash

\* if not new_hash: ... return False
HashObtained(new_hash) == new_hash # NoHash

RewrittenMut(file, upstream, old_sha, new_hash) ==
  [file EXCEPT !.version = upstream,
               !.url = [j \in DOMAIN file.url |-> ExpandUrl(file.url[j], upstream)],
               !.sha = [j \in DOMAIN file.sha |->
                         IF file.sha[j] = old_sha THEN new_hash ELSE file.sha[j]]]

\* recipe_str after replace_version_string and
\* recipe_str.replace(source['sha256'], new_hash): the version of the file is
\* the upstream version and every sha256 text equal to the old one is replaced.
Rewritten(file, upstream, old_sha, new_hash) ==
  [file EXCEPT !.version = upstream,
               !.sha = [j \in DOMAIN file.sha |->
                         IF file.sha[j] = old_sha THEN new_hash ELSE file.sha[j]]]

\* The exit status of main once the batch is processed: with --json main
\* returns after printing; otherwise sys.exit(1) when errors were counted.
ExitStatus(json, st) ==
  IF json THEN 0 ELSE IF st.packages_with_errors > 0 THEN 1 ELSE 0

\* What upstream resolution may answer.
UpstreamResults == {NoVer, V100, V120, V1100}

\* ------------------------------------------------------------------------
\* get_upstream_latest_version
\* ------------------------------------------------------------------------

RubygemsOrg ==
  <<"r", "u", "b", "y", "g", "e", "m", "s", ".", "o", "r", "g">>

PypiOrg ==
  <<"p", "y", "p", "i", ".", "o", "r", "g">>

NpmjsOrg ==
  <<"r", "e", "g", "i", "s", "t", "r", "y", ".", "n", "p", "m", "j", "s",
    ".", "o", "r", "g">>

Slash == <<"/">>

\* mode_mapping.get(mode_key, mode_key): the mode update_recipe_source passes
\* on for the first non-empty key of extra.version; "None" when there is none.
ModeMapping(mode_key) ==
  CASE mode_key \in {"github-release", "github-tags"} -> "github"
    [] mode_key = "rubygems-api" -> "rubygems"
    [] mode_key = "pypi-api" -> "pypi"
    [] mode_key = "npm-api" -> "npm"
    [] OTHER -> mode_key

DetectModeMut(source_url) ==
  IF Contains(source_url, GithubCom) THEN "github"
  ELSE IF Contains(source_url, PypiOrg) THEN "pypi"
  ELSE IF Contains(source_url, NpmjsOrg) THEN "npm"
  ELSE "rubygems"

\* The mode determined from the URL when none is given; "None": the early
\* return of get_upstream_latest_version.
DetectMode(source_url) ==
  IF Contains(source_url, GithubCom) THEN "github"
  ELSE IF Contains(source_url, RubygemsOrg) THEN "rubygems"
  ELSE IF Contains(source_url, PypiOrg) THEN "pypi"
  ELSE IF Contains(source_url, NpmjsOrg) THEN "npm"
  ELSE "None"

\* parts = source_url.split('github.com/')[1].split('/'); parts[0], parts[1]:
\* whether both exist (otherwise IndexError).
OwnerRepoParts(source_url) ==
  LET halves == Split(source_url, GithubCom \o Slash) IN
  Len(halves) >= 2 /\ Len(Split(halves[2], Slash)) >= 2

\* One way a resolution can go: the version returned (NoVer: None) and the
\* listings queried in order.  Every exception is caught inside.
Resolution(version, queried) == [version |-> version, queried |-> queried]

\* Every way get_upstream_latest_version can go for a URL, a mode ("None"
\* when not given) and mode_explicit, over all answers of the network.
GetUpstreamLatestVersion(source_url, mode, mode_explicit) ==
  LET m == IF mode = "None" THEN DetectMode(source_url) ELSE mode
      found == UpstreamResults \ {NoVer}
  IN
  IF m = "github" /\ Contains(source_url, GithubCom) /\ OwnerRepoParts(source_url)
  THEN {Resolution(v, <<"releases">>) : v \in found}
       \cup (IF mode_explicit
             THEN {Resolution(NoVer, <<"releases">>)}
             ELSE {Resolution(v, <<"releases", "tags">>) : v \in UpstreamResults})
  ELSE IF m = "rubygems"
  THEN {Resolution(v, <<"rubygems">>) : v \in UpstreamResults}
  ELSE {Resolution(NoVer, <<>>)}

\* ------------------------------------------------------------------------
\* State of main processing a batch
\* ------------------------------------------------------------------------

VARIABLES
  args,       \* parse_arguments: [dry_run, update]; --json is read at the end
  recipes,    \* recipe_files: the descriptors of the batch, in order
  files,      \* files[i]: the content on disk of recipe i
  stats,      \* the UpdateStats of main
  pc,         \* where main is: "loop", "source", "conda", "resolve", "hash",
              \* "write", "done"
  idx,        \* the recipe file the for loop of main is at
  sidx,       \* the source entry the loop of update_recipe is at
  recipe,     \* what update_recipe loaded: [version, sha]
  call,       \* the locals and the result of the current (or last)
              \* update_recipe_source call
  exit_code,  \* the exit status of the process, -1 while it runs
  writes,     \* history: the number of recipe_path.write_text calls
  visited,    \* history: the recipe files update_recipe was called for
  log         \* history: in order, how each update_recipe_source call for
              \* the recipe last loaded ended and what the network answered

batchVars ==
  <<args, recipes, files, stats, pc, idx, sidx, recipe, call, exit_code,
    writes, visited, log>>

\* State of one upstream resolution (candidate filtering and selection)
VARIABLES
  resolver,          \* which implementation runs: "github_plugin",
                     \* "git_plugin", "version_ctl" or "update_versions"
  tags,              \* the tag names the hosting API listed, in its order
  drafts,            \* the positions of the listing whose release is marked
                     \* draft or prerelease; none in a listing of tags
  version_patterns,  \* the configured patterns, possibly none
  cleaned,           \* the listed tag names after the resolver's clean-up
  valid,             \* the candidates that passed the filter, in listing order
  ranked,            \* the candidate list after the sort
  latest,            \* what the resolver returns
  download_url,      \* the download_url of the VersionInfo the gem resolver
                     \* returns
  spc                \* "idle", "listed", "filtered", "selected"

selectVars ==
  <<resolver, tags, drafts, version_patterns, cleaned, valid, ranked, latest,
    download_url, spc>>

\* State of one dispatch of a source URL to a resolver
VARIABLES
  plugins,     \* PluginManager._plugins: the plugin names in registration order
  source_url,  \* the URL to resolve, one character per element
  mode,        \* the mode argument, or the key of extra.version; "None": none
  entry,       \* "manager": PluginManager.get_latest_version; "ctl":
               \* update_recipe_source calling get_upstream_latest_version
  plugin,      \* what get_plugin_for_url returned; "None": no plugin
  queried,     \* history: the listings queried, in order
  result,      \* "pending", then "VersionInfo", "None" or "raised"
  dpc          \* "idle", "start", "dispatched", the listing about to be
               \* queried, "done"

dispatchVars ==
  <<plugins, source_url, mode, entry, plugin, queried, result, dpc>>

\* State of one rewrite of a recipe file
VARIABLES
  recipe_file,       \* the file as it was read, in parts: the text before the
                     \* value of context.version, that value, the text up to
                     \* the sha256 value, that value, and the rest
  upstream_version,  \* the version to write
  fetched_hash,      \* the sha256 of the new archive
  recipe_str,        \* the local recipe_str of update_recipe_source
  disk,              \* the characters of the file on disk
  rpc                \* "idle", "start", "read", "versioned", "hashed", "written"

rewriteVars ==
  <<recipe_file, upstream_version, fetched_hash, recipe_str, disk, rpc>>

\* outcome: "none" (no call yet), "running", or how the call ended; before
\* and writes0: the files and the write count when the call started;
\* replaced: the version text the write replaced; invoked: whether the
\* resolution queried a listing; steps: history, which of "conda", "resolve",
\* "hash" and "write" the call has carried out, in order.
NoCall ==
  [outcome |-> "none", upstream |-> NoVer, new_url |-> <<>>,
   new_hash |-> NoHash, hashed |-> FALSE, before |-> <<>>, writes0 |-> 0,
   replaced |-> NoVer, invoked |-> FALSE, steps |-> <<>>]

NoRecipe == [version |-> NoVer, sha |-> <<>>]

BatchInit ==
  /\ args \in [dry_run : BOOLEAN, update : BOOLEAN]
  /\ recipes \in [1..NumRecipes -> Descriptors]
  /\ files = [i \in 1..NumRecipes |-> FileOf(recipes[i])]
  /\ stats = NewStats
  /\ pc = "loop"
  /\ idx = 1
  /\ sidx = 1
  /\ recipe = NoRecipe
  /\ call = NoCall
  /\ exit_code = -1
  /\ writes = 0
  /\ visited = {}
  /\ log = <<>>

\* The source entries update_recipe iterates: the mapping itself, or the list.
Sources(d) == d.sources

\* The history entry of a call that ended.
Ended(c, j) ==
  [src |-> j, upstream |-> c.upstream, downloaded |-> c.new_hash # NoHash,
   outcome |-> c.outcome]

\* The source entry being processed, unwrapped.
CurSource == Unwrap(Sources(recipes[idx])[sidx])

\* update_recipe_source has returned for entry sidx: on to the next entry of
\* the list, or update_recipe returns and main takes the next recipe file.
Return ==
  /\ log' = Append(log, Ended(call', sidx))
  /\ IF sidx < Len(Sources(recipes[idx]))
     THEN pc' = "source" /\ sidx' = sidx + 1 /\ idx' = idx
     ELSE pc' = "loop" /\ sidx' = 1 /\ idx' = idx + 1

RaiseMut(msg) ==
  /\ stats' = AddError(stats, "recipe.yaml", msg)
  /\ pc' = "loop" /\ sidx' = 1 /\ idx' = NumRecipes + 1

\* The except clauses of update_recipe: the error is recorded under
\* recipe_path.name and update_recipe returns.
Raise(msg) ==
  /\ stats' = AddError(stats, "recipe.yaml", msg)
  /\ pc' = "loop" /\ sidx' = 1 /\ idx' = idx + 1

\* update_recipe up to its first source entry: load, the required sections,
\* total_packages, the shape of source.
LoadRecipe ==
  /\ pc = "loop" /\ idx <= NumRecipes
  /\ UNCHANGED <<selectVars, dispatchVars, rewriteVars>>
  /\ visited' = visited \cup {idx}
  /\ call' = NoCall
  /\ log' = <<>>
  /\ UNCHANGED <<args, recipes, files, exit_code, writes>>
  /\ LET d == recipes[idx] IN
     IF ~d.yaml_ok
     THEN Raise("YAML parsing error") /\ recipe' = NoRecipe
     ELSE IF d.missing # ""
     THEN /\ stats' = stats /\ recipe' = NoRecipe
          /\ pc' = "loop" /\ sidx' = 1 /\ idx' = idx + 1
     ELSE /\ recipe' = [version |-> files[idx].version, sha |-> files[idx].sha]
          /\ IF d.kind \in {"dict", "list"}
             THEN /\ stats' = Bump(stats, "total_packages")
                  /\ pc' = "source" /\ sidx' = 1 /\ idx' = idx
             ELSE /\ stats' = AddError(Bump(stats, "total_packages"), d.name,
                                       "Unsupported source format")
                  /\ pc' = "loop" /\ sidx' = 1 /\ idx' = idx + 1

\* One entry of source: a non-mapping item of a list is an error; otherwise
\* update_recipe_source starts: unwrap, local path, supported keys.
EnterSource ==
  /\ pc = "source"
  /\ UNCHANGED <<selectVars, dispatchVars, rewriteVars>>
  /\ UNCHANGED <<args, recipes, files, exit_code, writes, visited, recipe>>
  /\ LET raw == Sources(recipes[idx])[sidx]
         new == [NoCall EXCEPT !.before = files, !.writes0 = writes]
     IN
     IF ~raw.is_dict
     THEN /\ stats' = AddError(stats, recipes[idx].name, "Non-dict source item")
          /\ call' = [new EXCEPT !.outcome = "non_dict"]
          /\ Return
     ELSE IF "path" \in Unwrap(raw).keys
     THEN /\ stats' = stats
          /\ call' = [new EXCEPT !.outcome = "skipped"]
          /\ Return
     ELSE IF "url" \notin Unwrap(raw).keys /\ "git" \notin Unwrap(raw).keys
     THEN /\ stats' = Bump(stats, "unsupported_sources")
          /\ call' = [new EXCEPT !.outcome = "unsupported"]
          /\ Return
     ELSE /\ stats' = stats
          /\ call' = [new EXCEPT !.outcome = "running"]
          /\ pc' = "conda" /\ UNCHANGED <<idx, sidx, log>>

\* check_package_on_conda_forge and its counters, then the source URL.  What
\* conda-forge holds for a package is part of the descriptor's world.
CondaLookup ==
  /\ pc = "conda"
  /\ UNCHANGED <<selectVars, dispatchVars, rewriteVars>>
  /\ UNCHANGED <<args, recipes, files, exit_code, writes, visited, recipe>>
  /\ LET conda_forge_version == recipes[idx].conda IN
     /\ stats' = CondaCounters(stats, conda_forge_version, recipe.version)
     /\ IF CurSource.url = <<>>
        THEN /\ call' = [call EXCEPT !.outcome = "no_url",
                                     !.steps = Append(@, "conda")]
             /\ Return
        ELSE /\ call' = [call EXCEPT !.steps = Append(@, "conda")]
             /\ pc' = "resolve" /\ UNCHANGED <<idx, sidx, log>>

\* get_upstream_latest_version, the version comparison, the dry-run return,
\* and for a url source the download URL.
ResolveUpstream ==
  /\ pc = "resolve"
  /\ UNCHANGED <<selectVars, dispatchVars, rewriteVars>>
  /\ UNCHANGED <<args, recipes, files, exit_code, writes, visited, recipe>>
  /\ \E r \in GetUpstreamLatestVersion(UrlText(CurSource.url), "None", FALSE) :
       LET upstream == r.version
           c == [call EXCEPT !.upstream = upstream, !.invoked = r.queried # <<>>,
                             !.steps = Append(@, "resolve")]
       IN
       IF upstream = NoVer
       THEN /\ stats' = AddError(stats, recipes[idx].name,
                                 "Could not determine upstream version")
            /\ call' = [c EXCEPT !.outcome = "no_upstream"]
            /\ Return
       ELSE IF UpToDate(recipe.version, upstream)
       THEN /\ stats' = Bump(stats, "packages_up_to_date")
            /\ call' = [c EXCEPT !.outcome = "up_to_date"]
            /\ Return
       ELSE IF DryRun(args)
       THEN /\ stats' = Bump(stats, "upstream_newer")
            /\ call' = [c EXCEPT !.outcome = "would_update"]
            /\ Return
       ELSE IF "url" \in CurSource.keys
       THEN /\ stats' = Bump(stats, "upstream_newer")
            /\ call' = [c EXCEPT !.new_url = ExpandUrl(CurSource.url, upstream)]
            /\ pc' = "hash" /\ UNCHANGED <<idx, sidx, log>>
       ELSE /\ stats' = AddError(Bump(stats, "upstream_newer"), recipes[idx].name,
                                 "Git source updates not implemented")
            /\ call' = [c EXCEPT !.outcome = "git_unimplemented"]
            /\ Return

\* calculate_sha256(new_url) and the gate on its result.
CalculateSha ==
  /\ pc = "hash"
  /\ UNCHANGED <<selectVars, dispatchVars, rewriteVars>>
  /\ UNCHANGED <<args, recipes, files, exit_code, writes, visited, recipe>>
  /\ \E downloaded \in BOOLEAN :
       LET new_hash == IF downloaded THEN Sha256(call.new_url) ELSE NoHash
           c == [call EXCEPT !.new_hash = new_hash, !.hashed = TRUE,
                             !.steps = Append(@, "hash")]
       IN
       IF HashObtained(new_hash)
       THEN /\ stats' = stats
            /\ call' = c
            /\ pc' = "write" /\ UNCHANGED <<idx, sidx, log>>
       ELSE /\ stats' = AddError(stats, recipes[idx].name,
                                 "Failed to calculate SHA256 hash")
            /\ call' = [c EXCEPT !.outcome = "hash_failed"]
            /\ Return

\* read_text, replace_version_string, the replacement of the old sha256 and
\* write_text; source['sha256'] raises KeyError when the entry has none.
WriteRecipe ==
  /\ pc = "write"
  /\ UNCHANGED <<selectVars, dispatchVars, rewriteVars>>
  /\ UNCHANGED <<args, recipes, exit_code, visited, recipe>>
  /\ IF "sha256" \notin CurSource.keys
     THEN /\ call' = [call EXCEPT !.outcome = "exception"]
          /\ log' = Append(log, Ended(call', sidx))
          /\ Raise("Unexpected error")
          /\ UNCHANGED <<files, writes>>
     ELSE /\ files' = [files EXCEPT ![idx] =
                         Rewritten(@, call.upstream, recipe.sha[sidx], call.new_hash)]
          /\ writes' = writes + 1
          /\ stats' = Bump(stats, "packages_updated")
          /\ call' = [call EXCEPT !.outcome = "updated",
                                  !.replaced = files[idx].version,
                                  !.steps = Append(@, "write")]
          /\ Return

\* The end of main: the summary or the JSON report, and the exit status.
Finish ==
  /\ pc = "loop" /\ idx > NumRecipes
  /\ UNCHANGED <<selectVars, dispatchVars, rewriteVars>>
  /\ \E json \in BOOLEAN : exit_code' = ExitStatus(json, stats)
  /\ pc' = "done"
  /\ UNCHANGED <<args, recipes, files, stats, idx, sidx, recipe, call, writes,
                 visited, log>>

\* ------------------------------------------------------------------------
\* Candidate filtering and selection
\* ------------------------------------------------------------------------

MaxTags == 3

\* Tag names a repository may carry.
TagV120 == <<"v", "1", ".", "2", ".", "0">>
TagV1100 == <<"v", "1", ".", "1", "0", ".", "0">>
TagV190 == <<"v", "1", ".", "9", ".", "0">>
Tag1100 == <<"1", ".", "1", "0", ".", "0">>
TagV0130 == <<"v", "0", "1", ".", "3", ".", "0">>
TagPkg200 == <<"p", "k", "g", "-", "2", ".", "0", ".", "0">>
TagV2 == <<"v", "2">>
TagVV120 == <<"v", "v", "1", ".", "2", ".", "0">>

TagNames ==
  {TagV120, TagV1100, TagV190, Tag1100, TagV0130, TagPkg200, TagV2, TagVV120,
   \* version1.2.0
   <<"v", "e", "r", "s", "i", "o", "n", "1", ".", "2", ".", "0">>}

\* The package_name argument of the resolvers.
PackageName == <<"p", "k", "g">>

\* A pattern of the form ^<literal>(\d+\.\d+\.\d+), or with an optional
\* literal ^<literal>?(\d+\.\d+\.\d+): its literal part.
DefaultPattern == [literal |-> <<>>, optional |-> FALSE]
VPattern == [literal |-> <<"v">>, optional |-> FALSE]
GitDefaultPattern == [literal |-> <<"v">>, optional |-> TRUE]

\* str.lower on the characters of the model.
Lower(s) == [i \in DOMAIN s |-> IF s[i] = "V" THEN "v" ELSE s[i]]

\* The prefixes of _clean_tag_name, lowered as its comparison lowers them.
PrefixesLower ==
  << <<"v">>, <<"v">>, <<"v", "e", "r", "s", "i", "o", "n">>,
     <<"r", "e", "l", "e", "a", "s", "e">>, <<"r", "e", "l", "e", "a", "s", "e">>,
     <<"v", "e", "r", "s", "i", "o", "n">>, <<"r", "e", "l", "e", "a", "s", "e">> >>

\* GitHubPlugin._clean_tag_name: the first prefix the lowered tag starts
\* with is cut off; package_name is not used.
CleanTagName(tag_name, package_name) ==
  LET hits == {i \in DOMAIN PrefixesLower : StartsWith(Lower(tag_name), PrefixesLower[i])}
  IN IF hits = {} THEN tag_name
     ELSE DropFirst(tag_name,
                    Len(PrefixesLower[CHOOSE i \in hits : \A k \in hits : i <= k]))

\* The clean-up of version_ctl.py and update-versions.py: package_name and the
\* character after it, then one leading v.
CleanTagCtl(tag_name, package_name) ==
  LET c1 == IF StartsWith(tag_name, package_name)
            THEN DropFirst(tag_name, Len(package_name) + 1) ELSE tag_name
  IN IF StartsWith(c1, <<"v">>) THEN DropFirst(c1, 1) ELSE c1

\* GitPlugin._clean_tag_name: package_name and the character after it, then
\* one leading v.
GitCleanTagName(tag_name, package_name) ==
  LET c1 == IF StartsWith(tag_name, package_name)
            THEN DropFirst(tag_name, Len(package_name) + 1) ELSE tag_name
  IN IF StartsWith(c1, <<"v">>) THEN DropFirst(c1, 1) ELSE c1

\* The clean-up each resolver applies to a tag name.
CleanFor(which, tag_name) ==
  IF which = "github_plugin" THEN CleanTagName(tag_name, PackageName)
  ELSE IF which = "git_plugin" THEN GitCleanTagName(tag_name, PackageName)
  ELSE CleanTagCtl(tag_name, PackageName)

\* re.match(pattern, text) for a pattern ^<literal>(\d+\.\d+\.\d+): group 1,
\* or the empty text when there is no match.
ReMatch(pattern, text) ==
  IF ~StartsWith(text, pattern.literal) /\ ~pattern.optional THEN <<>>
  ELSE LET r0 == IF StartsWith(text, pattern.literal)
                 THEN DropFirst(text, Len(pattern.literal)) ELSE text
           a == DigitRun(r0)
           r1 == DropFirst(r0, Len(a))
           b == IF r1 # <<>> /\ Head(r1) = "." THEN DigitRun(Tail(r1)) ELSE <<>>
           r2 == IF r1 = <<>> THEN <<>> ELSE DropFirst(r1, 1 + Len(b))
           c == IF r2 # <<>> /\ Head(r2) = "." THEN DigitRun(Tail(r2)) ELSE <<>>
       IN IF a # <<>> /\ b # <<>> /\ c # <<>>
          THEN a \o <<".">> \o b \o <<".">> \o c ELSE <<>>

\* The loop over version_patterns: the version the first matching pattern
\* extracts, or the empty text.
RECURSIVE FirstMatch(_, _)
FirstMatch(patterns, cleaned_tag) ==
  IF patterns = <<>> THEN <<>>
  ELSE IF ReMatch(Head(patterns), cleaned_tag) # <<>>
       THEN ReMatch(Head(patterns), cleaned_tag)
       ELSE FirstMatch(Tail(patterns), cleaned_tag)

\* if not version_patterns: version_patterns = [r'^(\d+\.\d+\.\d+)']
PatternsOrDefault(patterns) ==
  IF patterns = <<>> THEN <<DefaultPattern>> ELSE patterns

\* if not version_patterns: version_patterns = [r'^v?(\d+\.\d+\.\d+)']
GitPatternsOrDefault(patterns) ==
  IF patterns = <<>> THEN <<GitDefaultPattern>> ELSE patterns

Candidate(version, tag_name) == [version |-> version, tag_name |-> tag_name]

\* What a resolver returns when it returns None.
None == Candidate(<<>>, <<>>)

PublishedMut(releases, held) == releases

\* The releases the loop does not skip: those marked neither draft nor
\* prerelease, in listing order.
Published(releases, held) ==
  LET keep == DOMAIN releases \ held
      at(k) == CHOOSE i \in keep : Cardinality({j \in keep : j <= i}) = k
  IN [k \in 1..Cardinality(keep) |-> releases[at(k)]]

\* The filter loop of the releases and tags resolvers: every listed tag is
\* cleaned and kept when a pattern matches it.
RECURSIVE FilterTags(_, _, _)
FilterTags(which, names, patterns) ==
  IF names = <<>> THEN <<>>
  ELSE LET tag_name == Head(names)
           cleaned_tag == CleanFor(which, tag_name)
           version == FirstMatch(patterns, cleaned_tag)
           rest == FilterTags(which, Tail(names), patterns)
       IN IF version # <<>> THEN <<Candidate(version, tag_name)>> \o rest ELSE rest

\* The comparison of the version:refname sort of git: -1, 0 or 1.  The
\* names are compared up to the first difference; there, a run of digits
\* that does not start with 0 is the greater when it is the longer, a run that
\* starts with 0 is compared as a fraction, and anything else by code point.
VersionCmp(s1, s2) ==
  LET shared == {k \in 0..Len(s1) : k <= Len(s2) /\ SubSeq(s1, 1, k) = SubSeq(s2, 1, k)}
      n == CHOOSE k \in shared : \A j \in shared : j <= k
      at(t, i) == IF i <= Len(t) THEN t[i] ELSE ""
      code(c) == IF c = "" THEN 0 ELSE Ord(c)
      class(c) == IF c = "0" THEN "0" ELSE IF IsDigit(c) THEN "d" ELSE "x"
      c1 == at(s1, n + 1)
      c2 == at(s2, n + 1)
      diff == IF code(c1) > code(c2) THEN 1 ELSE -1
      others == {i \in 1..n : ~IsDigit(s1[i])}
      dp == IF others = {} THEN 0 ELSE CHOOSE i \in others : \A j \in others : j <= i
      run == SubSeq(s1, dp + 1, n)
      state == IF run = <<>> THEN "S_N"
               ELSE IF run[1] # "0" THEN "S_I"
               ELSE IF \A i \in DOMAIN run : run[i] = "0" THEN "S_Z" ELSE "S_F"
      len == LET a == Len(DigitRun(DropFirst(s1, n + 1)))
                 b == Len(DigitRun(DropFirst(s2, n + 1)))
             IN IF a > b THEN 1 ELSE IF a < b THEN -1 ELSE diff
  IN
  IF s1 = s2 THEN 0
  ELSE IF state = "S_N"
  THEN IF class(c1) = "d" /\ class(c2) = "d" THEN len ELSE diff
  ELSE IF state = "S_I"
  THEN IF class(c1) = "x" /\ class(c2) = "x" THEN diff
       ELSE IF class(c1) = "x" THEN -1
       ELSE IF class(c2) = "x" THEN 1
       ELSE len
  ELSE IF state = "S_Z"
  THEN IF class(c1) = "x" /\ class(c2) = "x" THEN diff
       ELSE IF class(c1) = "x" THEN 1
       ELSE IF class(c2) = "x" THEN -1
       ELSE diff
  ELSE diff

\* Whether the sort key of x is strictly greater than that of y.
KeyGreater(by, x, y) ==
  IF by = "semver" THEN SemverCompare(x.version, y.version) > 0
  ELSE IF by = "refname" THEN VersionCmp(x.tag_name, y.tag_name) > 0
  ELSE StrLess(y.version, x.version)

InsertMut(x, sorted, by) ==
  LET before == {i \in DOMAIN sorted : KeyGreater(by, sorted[i], x)}
      n == Cardinality(before)
  IN SubSeq(sorted, 1, n) \o <<x>> \o SubSeq(sorted, n + 1, Len(sorted))

\* One step of a stable descending sort: x goes behind every entry whose key
\* is not smaller than its own.
Insert(x, sorted, by) ==
  LET before == {i \in DOMAIN sorted : ~KeyGreater(by, x, sorted[i])}
      n == Cardinality(before)
  IN SubSeq(sorted, 1, n) \o <<x>> \o SubSeq(sorted, n + 1, Len(sorted))

\* list.sort(key=..., reverse=True): descending, entries with equal keys keep
\* their order.
RECURSIVE SortDescending(_, _)
SortDescending(l, by) ==
  IF l = <<>> THEN <<>>
  ELSE Insert(l[Len(l)], SortDescending(SubSeq(l, 1, Len(l) - 1), by), by)

\* git ls-remote --tags --sort=-version:refname: the tag names of the
\* remote in descending version order of their names.
LsRemoteTags(names) ==
  LET refs == SortDescending([i \in DOMAIN names |-> Candidate(<<>>, names[i])],
                             "refname")
  IN [i \in DOMAIN refs |-> refs[i].tag_name]

\* Whether semver.VersionInfo.parse succeeds on every version of the list.
AllParse(l) == \A i \in DOMAIN l : SemverValid(l[i].version)

\* The try/except of the sort: by semantic version, or when a parse raises,
\* by string.
SortVersions(l) ==
  IF AllParse(l) THEN SortDescending(l, "semver") ELSE SortDescending(l, "string")

\* The loop of get_github_latest_tag of update-versions.py from item k on:
\* the first candidate, then each candidate semver.compare finds greater; a
\* comparison that raises is passed over.
RECURSIVE LatestTagScan(_, _, _)
LatestTagScan(l, k, best) ==
  IF k > Len(l) THEN best
  ELSE LET candidate == l[k] IN
       IF best = None THEN LatestTagScan(l, k + 1, candidate)
       ELSE IF /\ SemverValid(candidate.version) /\ SemverValid(best.version)
               /\ SemverCompare(candidate.version, best.version) = 1
       THEN LatestTagScan(l, k + 1, candidate)
       ELSE LatestTagScan(l, k + 1, best)

\* The candidates of update-versions.py: every listed name, cleaned.
CleanAll(names) ==
  [i \in DOMAIN names |-> Candidate(CleanTagCtl(names[i], PackageName), names[i])]

RECURSIVE SeqsUpTo(_, _)
SeqsUpTo(S, n) ==
  IF n = 0 THEN {<<>>}
  ELSE SeqsUpTo(S, n - 1) \cup
       {Append(q, x) : q \in {r \in SeqsUpTo(S, n - 1) : Len(r) = n - 1}, x \in S}

SelectInit ==
  /\ resolver \in {"github_plugin", "git_plugin", "version_ctl", "update_versions",
                   "rubygem_plugin"}
  /\ cleaned = <<>>
  \* the registry of gems answers with one version, or with none
  /\ tags \in IF resolver = "rubygem_plugin"
              THEN {<<>>, <<Tag1100>>, <<V120>>, <<TagV2>>,
                    \* 1.2.0.1
                    << <<"1", ".", "2", ".", "0", ".", "1">> >>}
              ELSE SeqsUpTo(TagNames, MaxTags)
  /\ drafts \in IF resolver \in {"github_plugin", "version_ctl"}
                THEN {{}, DOMAIN tags} \cup {{i} : i \in DOMAIN tags}
                ELSE {{}}
  /\ version_patterns \in {<<>>, <<VPattern>>, <<VPattern, DefaultPattern>>}
  /\ valid = <<>>
  /\ ranked = <<>>
  /\ latest = None
  /\ download_url = <<>>
  /\ spc = "listed"

\* The filter loop of GitHubPlugin._get_latest_release / _get_latest_tag, of
\* GitPlugin._get_latest_tag and of get_github_latest_release of
\* version_ctl.py; no candidate: return None.
FilterCandidates ==
  /\ spc = "listed" /\ resolver \in {"github_plugin", "git_plugin", "version_ctl"}
  /\ cleaned' = [i \in DOMAIN tags \ drafts |-> CleanFor(resolver, tags[i])]
  /\ valid' = FilterTags(resolver,
                         IF resolver = "git_plugin" THEN LsRemoteTags(tags)
                         ELSE Published(tags, drafts),
                         IF resolver = "git_plugin"
                         THEN GitPatternsOrDefault(version_patterns)
                         ELSE PatternsOrDefault(version_patterns))
  /\ spc' = IF valid' = <<>> THEN "selected" ELSE "filtered"
  /\ UNCHANGED <<resolver, tags, drafts, version_patterns, download_url, ranked, latest>>
  /\ UNCHANGED <<batchVars, dispatchVars, rewriteVars>>

\* GitPlugin._get_latest_tag: the first matching tag of the listing as git
\* ls-remote sorted it.
GitLatestTag ==
  /\ spc = "filtered" /\ resolver = "git_plugin"
  /\ latest' = valid[1]
  /\ spc' = "selected"
  /\ UNCHANGED <<resolver, tags, drafts, version_patterns, download_url, cleaned, valid, ranked>>
  /\ UNCHANGED <<batchVars, dispatchVars, rewriteVars>>

\* _sort_and_get_latest, and the sort of version_ctl.py: the head of the
\* sorted list.
SortAndGetLatest ==
  /\ spc = "filtered" /\ resolver \in {"github_plugin", "version_ctl"}
  /\ ranked' = SortVersions(valid)
  /\ latest' = ranked'[1]
  /\ spc' = "selected"
  /\ UNCHANGED <<resolver, tags, drafts, version_patterns, download_url, cleaned, valid>>
  /\ UNCHANGED <<batchVars, dispatchVars, rewriteVars>>

\* get_github_latest_tag of update-versions.py.
GetGithubLatestTag ==
  /\ spc = "listed" /\ resolver = "update_versions"
  /\ cleaned' = [i \in DOMAIN tags |-> CleanFor(resolver, tags[i])]
  /\ valid' = CleanAll(tags)
  /\ latest' = LatestTagScan(valid', 1, None)
  /\ spc' = "selected"
  /\ UNCHANGED <<resolver, tags, drafts, version_patterns, download_url, ranked>>
  /\ UNCHANGED <<batchVars, dispatchVars, rewriteVars>>

\* RubyGemsPlugin._get_latest_gem_version for the gem named as the package:
\* the version field of the registry's answer against the patterns; the
\* download URL is made of the gem name and that field.
GetLatestGemVersion ==
  /\ spc = "listed" /\ resolver = "rubygem_plugin"
  /\ LET latest_version == IF tags = <<>> THEN <<>> ELSE tags[1]
         version == FirstMatch(PatternsOrDefault(version_patterns), latest_version)
     IN IF latest_version = <<>> \/ version = <<>>
        THEN latest' = None /\ download_url' = <<>>
        ELSE /\ latest' = Candidate(version, latest_version)
             /\ download_url' = Https \o RubygemsOrg
                                 \o <<"/", "d", "o", "w", "n", "l", "o", "a", "d", "s", "/">>
                                 \o PackageName \o <<"-">> \o latest_version
                                 \o <<".", "g", "e", "m">>
  /\ spc' = "selected"
  /\ UNCHANGED <<resolver, tags, drafts, version_patterns, cleaned, valid, ranked>>
  /\ UNCHANGED <<batchVars, dispatchVars, rewriteVars>>

\* ------------------------------------------------------------------------
\* Dispatch of a source URL: PluginManager and the resolvers' entry points
\* ------------------------------------------------------------------------

ApiGithubCom ==
  <<"a", "p", "i", ".", "g", "i", "t", "h", "u", "b", ".", "c", "o", "m">>

\* GitHubPlugin.supported_schemes
GitHubSchemes ==
  { \* https://github.com
    <<"h", "t", "t", "p", "s", ":", "/", "/", "g", "i", "t", "h", "u",
      "b", ".", "c", "o", "m">>,
    \* https://api.github.com
    <<"h", "t", "t", "p", "s", ":", "/", "/", "a", "p", "i", ".", "g",
      "i", "t", "h", "u", "b", ".", "c", "o", "m">>,
    \* git+https://github.com
    <<"g", "i", "t", "+", "h", "t", "t", "p", "s", ":", "/", "/", "g",
      "i", "t", "h", "u", "b", ".", "c", "o", "m">> }

\* GitPlugin.supported_schemes
GitSchemes ==
  { \* git://
    <<"g", "i", "t", ":", "/", "/">>,
    \* git+https://
    <<"g", "i", "t", "+", "h", "t", "t", "p", "s", ":", "/", "/">>,
    \* git+ssh://
    <<"g", "i", "t", "+", "s", "s", "h", ":", "/", "/">>,
    \* ssh://git@
    <<"s", "s", "h", ":", "/", "/", "g", "i", "t", "@">> }

\* RubyGemsPlugin.supported_schemes
RubyGemsSchemes ==
  { \* https://rubygems.org
    <<"h", "t", "t", "p", "s", ":", "/", "/", "r", "u", "b", "y", "g",
      "e", "m", "s", ".", "o", "r", "g">>,
    \* https://gem.fury.io
    <<"h", "t", "t", "p", "s", ":", "/", "/", "g", "e", "m", ".", "f",
      "u", "r", "y", ".", "i", "o">> }

\* excluded_hosts of GitPlugin.can_handle
ExcludedHosts ==
  { \* github.com
    <<"g", "i", "t", "h", "u", "b", ".", "c", "o", "m">>,
    \* gitlab.com
    <<"g", "i", "t", "l", "a", "b", ".", "c", "o", "m">>,
    \* bitbucket.org
    <<"b", "i", "t", "b", "u", "c", "k", "e", "t", ".", "o", "r", "g">> }

ReposSlash ==
  <<"r", "e", "p", "o", "s", "/">>

\* The URLs dispatched: the four of test_url_matching, then a git+https URL
\* on github.com, a GitHub URL without a repo segment, .git URLs on and off
\* github.com, a GitHub API URL, a Gemfury URL and a PyPI URL.
SourceUrls ==
  { \* https://github.com/owner/repo
    <<"h", "t", "t", "p", "s", ":", "/", "/", "g", "i", "t", "h", "u",
      "b", ".", "c", "o", "m", "/", "o", "w", "n", "e", "r", "/",
      "r", "e", "p", "o">>,
    \* https://rubygems.org/gems/gem-name
    <<"h", "t", "t", "p", "s", ":", "/", "/", "r", "u", "b", "y", "g",
      "e", "m", "s", ".", "o", "r", "g", "/", "g", "e", "m", "s",
      "/", "g", "e", "m", "-", "n", "a", "m", "e">>,
    \* git://example.com/repo.git
    <<"g", "i", "t", ":", "/", "/", "e", "x", "a", "m", "p", "l", "e",
      ".", "c", "o", "m", "/", "r", "e", "p", "o", ".", "g", "i",
      "t">>,
    \* https://unknown-service.com/repo
    <<"h", "t", "t", "p", "s", ":", "/", "/", "u", "n", "k", "n", "o",
      "w", "n", "-", "s", "e", "r", "v", "i", "c", "e", ".", "c",
      "o", "m", "/", "r", "e", "p", "o">>,
    \* git+https://github.com/owner/repo.git
    <<"g", "i", "t", "+", "h", "t", "t", "p", "s", ":", "/", "/", "g",
      "i", "t", "h", "u", "b", ".", "c", "o", "m", "/", "o", "w",
      "n", "e", "r", "/", "r", "e", "p", "o", ".", "g", "i", "t">>,
    \* https://github.com/owner
    <<"h", "t", "t", "p", "s", ":", "/", "/", "g", "i", "t", "h", "u",
      "b", ".", "c", "o", "m", "/", "o", "w", "n", "e", "r">>,
    \* https://github.com/owner/repo.git
    <<"h", "t", "t", "p", "s", ":", "/", "/", "g", "i", "t", "h", "u",
      "b", ".", "c", "o", "m", "/", "o", "w", "n", "e", "r", "/",
      "r", "e", "p", "o", ".", "g", "i", "t">>,
    \* https://example.com/repo.git
    <<"h", "t", "t", "p", "s", ":", "/", "/", "e", "x", "a", "m", "p",
      "l", "e", ".", "c", "o", "m", "/", "r", "e", "p", "o", ".",
      "g", "i", "t">>,
    \* https://api.github.com/repos/owner/repo
    <<"h", "t", "t", "p", "s", ":", "/", "/", "a", "p", "i", ".", "g",
      "i", "t", "h", "u", "b", ".", "c", "o", "m", "/", "r", "e",
      "p", "o", "s", "/", "o", "w", "n", "e", "r", "/", "r", "e",
      "p", "o">>,
    \* https://gem.fury.io/owner/
    <<"h", "t", "t", "p", "s", ":", "/", "/", "g", "e", "m", ".", "f",
      "u", "r", "y", ".", "i", "o", "/", "o", "w", "n", "e", "r",
      "/">>,
    \* https://pypi.org/project/pkg
    <<"h", "t", "t", "p", "s", ":", "/", "/", "p", "y", "p", "i", ".",
      "o", "r", "g", "/", "p", "r", "o", "j", "e", "c", "t", "/",
      "p", "k", "g">> }

PluginNames == {"git", "github", "rubygems"}

\* any(scheme in source_url for scheme in supported_schemes)
AnyScheme(schemes, url) == \E scheme \in schemes : Contains(url, scheme)

\* The characters a URL scheme is made of.
SchemeChars ==
  {"a", "b", "c", "d", "e", "f", "g", "h", "i", "j", "k", "l", "m", "n", "o",
   "p", "q", "r", "s", "t", "u", "v", "w", "x", "y", "z", "+", "-", "."} \cup Digits

\* urlparse(url).netloc: what follows scheme:// up to the next /, ? or #.
Netloc(url) ==
  LET colon == IndexOf(url, <<":">>)
      rest == IF colon > 1 /\ \A i \in 1..(colon - 1) : url[i] \in SchemeChars
              THEN DropFirst(url, colon) ELSE url
      after == DropFirst(rest, 2)
      stops == {i \in DOMAIN after : after[i] \in {"/", "?", "#"}}
  IN IF ~StartsWith(rest, <<"/", "/">>) THEN <<>>
     ELSE IF stops = {} THEN after
     ELSE SubSeq(after, 1, (CHOOSE i \in stops : \A k \in stops : i <= k) - 1)

GitHubCanHandle(url) == AnyScheme(GitHubSchemes, url)

GitCanHandle(url) ==
  IF AnyScheme(GitSchemes, url) THEN TRUE
  ELSE IF EndsWith(url, DotGit) THEN Netloc(url) \notin ExcludedHosts
  ELSE FALSE

RubyGemsCanHandle(url) == AnyScheme(RubyGemsSchemes, url)

\* plugin.can_handle(source_url) of the plugin registered under a name.
CanHandle(name, url) ==
  CASE name = "github" -> GitHubCanHandle(url)
    [] name = "git" -> GitCanHandle(url)
    [] name = "rubygems" -> RubyGemsCanHandle(url)

FirstPluginMut(order, url) ==
  LET hits == {i \in DOMAIN order : CanHandle(order[i], url)} IN
  IF hits = {} THEN "None" ELSE order[CHOOSE i \in hits : \A k \in hits : i >= k]

\* get_plugin_for_url: the loop over self._plugins.values() returns at the
\* first plugin whose can_handle is true; None after the loop.
FirstPlugin(order, url) ==
  LET hits == {i \in DOMAIN order : CanHandle(order[i], url)} IN
  IF hits = {} THEN "None" ELSE order[CHOOSE i \in hits : \A k \in hits : i <= k]

\* GitHubPlugin.extract_source_info: whether owner and repo can be taken
\* from the URL; when not, ValueError is raised.
GitHubSourceInfo(url) ==
  LET marker == IF Contains(url, ApiGithubCom \o Slash \o ReposSlash)
                THEN ApiGithubCom \o Slash \o ReposSlash
                ELSE GithubCom \o Slash
      halves == Split(url, marker)
  IN Len(halves) >= 2 /\ Len(Split(halves[2], Slash)) >= 2

\* extract_source_info of a plugin returns (TRUE) or raises (FALSE).
ExtractSourceInfo(name, url) ==
  IF name = "github" THEN GitHubSourceInfo(url) ELSE TRUE

\* The listing a plugin's get_latest_version queries first for a mode.
FirstListing(name, m) ==
  CASE name = "github" -> IF m = "github-tags" THEN "tags" ELSE "releases"
    [] name = "git" -> IF m = "git-branches" THEN "branches" ELSE "git-tags"
    [] name = "rubygems" -> "rubygems"

FallbackMut(name, m, listing) ==
  IF name = "git" /\ listing = "git-tags" /\ m \notin {"git-tags", "git-branches"}
  THEN "branches"
  ELSE ""

\* The listing queried after one answered None; "" when there is none.
Fallback(name, m, listing) ==
  IF name = "github" /\ listing = "releases" /\ m \notin {"github-tags", "github-release"}
  THEN "tags"
  ELSE IF name = "git" /\ listing = "git-tags" /\ m \notin {"git-tags", "git-branches"}
  THEN "branches"
  ELSE ""

Listings == {"releases", "tags", "git-tags", "branches", "rubygems"}

Permutations3(S) ==
  {o \in [1..3 -> S] : \A a, b \in 1..3 : a # b => o[a] # o[b]}

DispatchInit ==
  /\ plugins \in Permutations3(PluginNames)
  /\ source_url \in SourceUrls
  /\ entry \in {"manager", "ctl"}
  /\ mode \in IF entry = "manager"
              THEN {"None", "github-release", "github-tags", "git-tags", "git-branches"}
              ELSE {"None", "github-release", "github-tags", "rubygems-api", "pypi-api"}
  /\ plugin = ""
  /\ queried = <<>>
  /\ result = "pending"
  /\ dpc = "start"

\* PluginManager.get_latest_version up to the plugin call: no plugin, no call.
GetPluginForUrl ==
  /\ dpc = "start" /\ entry = "manager"
  /\ plugin' = FirstPlugin(plugins, source_url)
  /\ IF plugin' = "None"
     THEN result' = "None" /\ dpc' = "done"
     ELSE result' = result /\ dpc' = "dispatched"
  /\ UNCHANGED <<plugins, source_url, mode, entry, queried>>
  /\ UNCHANGED <<batchVars, selectVars, rewriteVars>>

\* get_latest_version of the plugin: extract_source_info, then the mode.
PluginGetLatestVersion ==
  /\ dpc = "dispatched"
  /\ IF ExtractSourceInfo(plugin, source_url)
     THEN result' = result /\ dpc' = FirstListing(plugin, mode)
     ELSE result' = "raised" /\ dpc' = "done"
  /\ UNCHANGED <<plugins, source_url, mode, entry, plugin, queried>>
  /\ UNCHANGED <<batchVars, selectVars, rewriteVars>>

\* One of _get_latest_release, _get_latest_tag, _get_latest_branch and
\* _get_latest_gem_version: a VersionInfo, or None for an empty listing, no
\* match and every failure of the request, all of which are caught.
QueryListing ==
  /\ dpc \in Listings
  /\ queried' = Append(queried, dpc)
  /\ \E found \in BOOLEAN :
       IF found THEN result' = "VersionInfo" /\ dpc' = "done"
       ELSE IF Fallback(plugin, mode, dpc) # ""
       THEN result' = result /\ dpc' = Fallback(plugin, mode, dpc)
       ELSE result' = "None" /\ dpc' = "done"
  /\ UNCHANGED <<plugins, source_url, mode, entry, plugin>>
  /\ UNCHANGED <<batchVars, selectVars, rewriteVars>>

\* update_recipe_source from the mode extraction to the return of
\* get_upstream_latest_version.
CtlGetUpstream ==
  /\ dpc = "start" /\ entry = "ctl"
  /\ \E r \in GetUpstreamLatestVersion(source_url, ModeMapping(mode), mode # "None") :
       /\ queried' = r.queried
       /\ result' = IF r.version = NoVer THEN "None" ELSE "VersionInfo"
  /\ dpc' = "done"
  /\ UNCHANGED <<plugins, source_url, mode, entry, plugin>>
  /\ UNCHANGED <<batchVars, selectVars, rewriteVars>>

\* ------------------------------------------------------------------------
\* The rewrite of a recipe file: replace_version_string, the sha256
\* replacement and write_text
\* ------------------------------------------------------------------------

VersionKey ==
  <<"v", "e", "r", "s", "i", "o", "n", ":">>

\* The recipe files rewritten.
RecipeFiles ==
  {
    \* the usual layout, ending with a newline
    [pre |-> <<"c", "o", "n", "t", "e", "x", "t", ":", "\n", " ", " ",
              "v", "e", "r", "s", "i", "o", "n", ":", " ">>,
     ver |-> <<"\"", "1", ".", "0", ".", "0", "\"">>,
     mid |-> <<"\n", "s", "o", "u", "r", "c", "e", ":", "\n", " ", " ",
              "s", "h", "a", "2", "5", "6", ":", " ">>,
     sha |-> <<"a", "a">>,
     post |-> <<"\n">>],
    \* the same without the final newline
    [pre |-> <<"c", "o", "n", "t", "e", "x", "t", ":", "\n", " ", " ",
              "v", "e", "r", "s", "i", "o", "n", ":", " ">>,
     ver |-> <<"\"", "1", ".", "0", ".", "0", "\"">>,
     mid |-> <<"\n", "s", "o", "u", "r", "c", "e", ":", "\n", " ", " ",
              "s", "h", "a", "2", "5", "6", ":", " ">>,
     sha |-> <<"a", "a">>,
     post |-> <<>>],
    \* a comment after the version
    [pre |-> <<"c", "o", "n", "t", "e", "x", "t", ":", "\n", " ", " ",
              "v", "e", "r", "s", "i", "o", "n", ":", " ">>,
     ver |-> <<"\"", "1", ".", "0", ".", "0", "\"">>,
     mid |-> <<" ", "#", " ", "p", "i", "n", "\n", "s", "o", "u", "r",
              "c", "e", ":", "\n", " ", " ", "s", "h", "a",
              "2", "5", "6", ":", " ">>,
     sha |-> <<"a", "a">>,
     post |-> <<>>],
    \* a version: line of package before the context section
    [pre |-> <<"p", "a", "c", "k", "a", "g", "e", ":", "\n", " ", " ",
              "v", "e", "r", "s", "i", "o", "n", ":", " ",
              "x", "\n", "c", "o", "n", "t", "e", "x", "t",
              ":", "\n", " ", " ", "v", "e", "r", "s", "i",
              "o", "n", ":", " ">>,
     ver |-> <<"\"", "1", ".", "0", ".", "0", "\"">>,
     mid |-> <<"\n", "s", "o", "u", "r", "c", "e", ":", "\n", " ", " ",
              "s", "h", "a", "2", "5", "6", ":", " ">>,
     sha |-> <<"a", "a">>,
     post |-> <<>>],
    \* an unquoted version, and a version: line of about after the source
    [pre |-> <<"c", "o", "n", "t", "e", "x", "t", ":", "\n", " ", " ",
              "v", "e", "r", "s", "i", "o", "n", ":", " ">>,
     ver |-> <<"1", ".", "0", ".", "0">>,
     mid |-> <<"\n", "s", "o", "u", "r", "c", "e", ":", "\n", " ", " ",
              "s", "h", "a", "2", "5", "6", ":", " ">>,
     sha |-> <<"a", "a">>,
     post |-> <<"\n", "a", "b", "o", "u", "t", ":", "\n", " ", " ", "v",
              "e", "r", "s", "i", "o", "n", ":", " ", "y">>] }

\* content.splitlines()
SplitLines(content) ==
  LET parts == Split(content, <<"\n">>) IN
  IF parts[Len(parts)] = <<>> THEN SubSeq(parts, 1, Len(parts) - 1) ELSE parts

RECURSIVE JoinLines(_)
\* '\n'.join(lines)
JoinLines(lines) ==
  IF lines = <<>> THEN <<>>
  ELSE IF Len(lines) = 1 THEN lines[1]
  ELSE lines[1] \o <<"\n">> \o JoinLines(Tail(lines))

\* str.strip()
Strip(t) ==
  LET inked == {i \in DOMAIN t : t[i] \notin {" ", "\n", "\t"}} IN
  IF inked = {} THEN <<>>
  ELSE SubSeq(t, CHOOSE i \in inked : \A k \in inked : i <= k,
                 CHOOSE i \in inked : \A k \in inked : i >= k)

RECURSIVE Replace(_, _, _)
\* str.replace(old, new), old not empty
Replace(t, old, new) ==
  LET i == IndexOf(t, old) IN
  IF i = 0 THEN t
  ELSE SubSeq(t, 1, i - 1) \o new \o Replace(DropFirst(t, i + Len(old) - 1), old, new)

\* replace_version_string: the first line that, stripped, starts with
\* version: becomes its leading whitespace and version: "new_version".
ReplaceVersionString(content, new_version) ==
  LET lines == SplitLines(content)
      hits == {i \in DOMAIN lines : StartsWith(Strip(lines[i]), VersionKey)}
  IN IF hits = {} THEN JoinLines(lines)
     ELSE LET i == CHOOSE k \in hits : \A h \in hits : k <= h
              whitespace == SubSeq(lines[i], 1, IndexOf(lines[i], VersionKey) - 1)
          IN JoinLines([lines EXCEPT ![i] =
                          whitespace \o VersionKey \o <<" ", "\"">> \o new_version
                          \o <<"\"">>])

RewriteInit ==
  /\ recipe_file \in RecipeFiles
  /\ upstream_version \in {V100, V120, V1100, V11}
  /\ fetched_hash \in {<<"b", "b">>, <<"c", "c">>}
  /\ recipe_str = <<>>
  /\ disk = recipe_file.pre \o recipe_file.ver \o recipe_file.mid
            \o recipe_file.sha \o recipe_file.post
  /\ rpc = "start"

\* recipe_str = recipe_path.read_text()
ReadText ==
  /\ rpc = "start"
  /\ recipe_str' = disk
  /\ rpc' = "read"
  /\ UNCHANGED <<recipe_file, upstream_version, fetched_hash, disk>>
  /\ UNCHANGED <<batchVars, selectVars, dispatchVars>>

\* recipe_str = replace_version_string(recipe_str, upstream_version)
ReplaceVersion ==
  /\ rpc = "read"
  /\ recipe_str' = ReplaceVersionString(recipe_str, upstream_version)
  /\ rpc' = "versioned"
  /\ UNCHANGED <<recipe_file, upstream_version, fetched_hash, disk>>
  /\ UNCHANGED <<batchVars, selectVars, dispatchVars>>

\* recipe_str = recipe_str.replace(source['sha256'], new_hash)
ReplaceSha ==
  /\ rpc = "versioned"
  /\ recipe_str' = Replace(recipe_str, recipe_file.sha, fetched_hash)
  /\ rpc' = "hashed"
  /\ UNCHANGED <<recipe_file, upstream_version, fetched_hash, disk>>
  /\ UNCHANGED <<batchVars, selectVars, dispatchVars>>

\* recipe_path.write_text(recipe_str.strip())
WriteText ==
  /\ rpc = "hashed"
  /\ disk' = Strip(recipe_str)
  /\ rpc' = "written"
  /\ UNCHANGED <<recipe_file, upstream_version, fetched_hash, recipe_str>>
  /\ UNCHANGED <<batchVars, selectVars, dispatchVars>>

\* The state of the variables of the machine that is not running.
SelectIdle ==
  /\ resolver = "github_plugin" /\ tags = <<>> /\ drafts = {}
  /\ version_patterns = <<>>
  /\ cleaned = <<>> /\ valid = <<>> /\ ranked = <<>> /\ latest = None
  /\ download_url = <<>> /\ spc = "idle"

BatchIdle ==
  /\ args = [dry_run |-> TRUE, update |-> FALSE]
  /\ recipes = <<>> /\ files = <<>> /\ stats = NewStats
  /\ pc = "done" /\ idx = 1 /\ sidx = 1 /\ recipe = NoRecipe /\ call = NoCall
  /\ exit_code = 0 /\ writes = 0 /\ visited = {} /\ log = <<>>

DispatchIdle ==
  /\ plugins = <<>> /\ source_url = <<>> /\ mode = "None" /\ entry = "manager"
  /\ plugin = "" /\ queried = <<>> /\ result = "pending" /\ dpc = "idle"

RewriteIdle ==
  /\ recipe_file = [pre |-> <<>>, ver |-> <<>>, mid |-> <<>>, sha |-> <<>>, post |-> <<>>]
  /\ upstream_version = NoVer /\ fetched_hash = <<>> /\ recipe_str = <<>>
  /\ disk = <<>> /\ rpc = "idle"

vars == <<batchVars, selectVars, dispatchVars, rewriteVars>>

Init == BatchInit /\ SelectIdle /\ DispatchIdle /\ RewriteIdle

Next ==
  \/ LoadRecipe
  \/ EnterSource
  \/ CondaLookup
  \/ ResolveUpstream
  \/ CalculateSha
  \/ WriteRecipe
  \/ Finish

Spec == Init /\ [][Next]_vars

InitSelect == SelectInit /\ BatchIdle /\ DispatchIdle /\ RewriteIdle

NextSelect ==
  \/ FilterCandidates
  \/ GitLatestTag
  \/ SortAndGetLatest
  \/ GetGithubLatestTag
  \/ GetLatestGemVersion

SpecSelect == InitSelect /\ [][NextSelect]_vars

InitDispatch == DispatchInit /\ BatchIdle /\ SelectIdle /\ RewriteIdle

NextDispatch ==
  \/ GetPluginForUrl
  \/ PluginGetLatestVersion
  \/ QueryListing
  \/ CtlGetUpstream

SpecDispatch == InitDispatch /\ [][NextDispatch]_vars

InitRewrite == RewriteInit /\ BatchIdle /\ SelectIdle /\ DispatchIdle

NextRewrite ==
  \/ ReadText
  \/ ReplaceVersion
  \/ ReplaceSha
  \/ WriteText

SpecRewrite == InitRewrite /\ [][NextRewrite]_vars

\* ------------------------------------------------------------------------
\* Properties of the batch
\* ------------------------------------------------------------------------

\* The recipes update_recipe has returned for.
Finished == {i \in visited : i < idx}

\* Whether source entry j of descriptor d is a url entry carrying a sha256.
HashedUrlEntry(d, j) ==
  d.sources[j].is_dict /\ {"url", "sha256"} \subseteq Unwrap(d.sources[j]).keys

\* C1: a recipe file never pairs a rewritten version with a stale hash: when
\* context.version was rewritten, the sha256 of every url source is the digest
\* of that source's download URL for the version in the file, and a rewritten
\* sha256 comes with a rewritten version.
C1_NoStaleHash ==
  \A i \in 1..NumRecipes :
    LET d == recipes[i] IN
    /\ files[i].version # FileOf(d).version =>
         \A j \in 1..Len(d.sources) :
           HashedUrlEntry(d, j) =>
             files[i].sha[j] =
               Sha256(ExpandUrl(Unwrap(d.sources[j]).url, files[i].version))
    /\ files[i].sha # FileOf(d).sha => files[i].version # FileOf(d).version

\* C2: when calculate_sha256 yields no hash, the call writes nothing, the
\* files are as they were when the call started, and the outcome is the
\* recorded failure.
C2_HashFailureWritesNothing ==
  (call.hashed /\ call.new_hash = NoHash) =>
    /\ call.outcome = "hash_failed"
    /\ files = call.before
    /\ writes = call.writes0
    /\ stats.error_details # <<>>
    /\ stats.error_details[Len(stats.error_details)]
         = <<recipes[CHOOSE i \in visited : \A k \in visited : k <= i].name,
             "Failed to calculate SHA256 hash">>

C2_Witness ==
  call.hashed /\ call.new_hash = NoHash /\ call.outcome = "hash_failed"

\* C3: a call that ends up to date computed no hash and wrote nothing, and a
\* write never replaces a version by one that is not strictly newer under
\* the comparison the code uses.
C3_UpToDateAndNoDowngrade ==
  /\ call.outcome = "up_to_date" =>
       ~call.hashed /\ files = call.before /\ writes = call.writes0
  /\ call.outcome = "updated" => ~UpToDate(call.replaced, call.upstream)

\* C4: with --dry-run, or without --update, no recipe file is ever written.
C4_OnlyUpdateModeWrites ==
  (args.dry_run \/ ~args.update) =>
    writes = 0 /\ files = [i \in 1..NumRecipes |-> FileOf(recipes[i])]

C4_Witness ==
  args.dry_run /\ args.update /\ call.outcome = "would_update"

\* C5: main ends with a non-zero exit status whenever an error was counted.
C5_ErrorsGiveNonZeroExit ==
  (pc = "done" /\ stats.packages_with_errors > 0) => exit_code # 0

\* How update_recipe_source ends for source entry e.src of descriptor d when
\* d is processed on its own and the network answers as in e.
AloneOutcome(d, e, dry) ==
  LET raw == d.sources[e.src]
      s == Unwrap(raw)
  IN
  IF ~raw.is_dict THEN "non_dict"
  ELSE IF "path" \in s.keys THEN "skipped"
  ELSE IF "url" \notin s.keys /\ "git" \notin s.keys THEN "unsupported"
  ELSE IF s.url = <<>> THEN "no_url"
  ELSE IF e.upstream = NoVer THEN "no_upstream"
  ELSE IF UpToDate(d.version, e.upstream) THEN "up_to_date"
  ELSE IF dry THEN "would_update"
  ELSE IF "url" \notin s.keys THEN "git_unimplemented"
  ELSE IF ~e.downloaded THEN "hash_failed"
  ELSE IF "sha256" \notin s.keys THEN "exception"
  ELSE "updated"

\* The content of the file of descriptor d after the calls of l, when d is
\* processed on its own.
RECURSIVE AloneFile(_, _)
AloneFile(d, l) ==
  IF l = <<>> THEN FileOf(d)
  ELSE LET before == AloneFile(d, SubSeq(l, 1, Len(l) - 1))
           e == l[Len(l)]
       IN
       IF e.outcome = "updated"
       THEN Rewritten(before, e.upstream, FileOf(d).sha[e.src],
                      Sha256(ExpandUrl(Unwrap(d.sources[e.src]).url, e.upstream)))
       ELSE before

\* The recipe update_recipe was last called for.
Loaded == CHOOSE i \in visited : \A k \in visited : k <= i

\* Every call for the recipe last loaded ended as it would have ended had the
\* descriptor been processed alone, its file holds what those calls wrote,
\* every source entry is processed unless an exception ended the descriptor,
\* and the files of the recipes not yet loaded are untouched.
IsolatedResult ==
  /\ pc = "done" => visited = 1..NumRecipes
  /\ \A i \in (1..NumRecipes) \ visited : files[i] = FileOf(recipes[i])
  /\ visited # {} =>
       LET d == recipes[Loaded] IN
       /\ \A k \in 1..Len(log) :
            /\ log[k].src = k
            /\ log[k].outcome = AloneOutcome(d, log[k], DryRun(args))
       /\ files[Loaded] = AloneFile(d, log)
       /\ (Loaded \in Finished /\ d.yaml_ok /\ d.missing = ""
           /\ d.kind \in {"dict", "list"}) =>
            \/ Len(log) = Len(d.sources)
            \/ log # <<>> /\ log[Len(log)].outcome = "exception"

\* A step changes no file but that of the recipe being processed.
OwnFileOnly ==
  \A j \in 1..NumRecipes : files'[j] # files[j] => (j = idx /\ pc = "write")

\* C6: a failure in one descriptor never aborts the batch: main ends having
\* processed every recipe file, each descriptor's calls end as they would
\* have ended had it been processed alone, and no step modifies the file of
\* another descriptor.
C6_BatchIsolation == [](IsolatedResult) /\ [][OwnFileOnly]_vars

C6_Witness ==
  /\ pc = "done"
  /\ ~recipes[1].yaml_ok
  /\ log # <<>> /\ log[Len(log)].outcome = "updated"

\* Whether a descriptor is malformed in the sense of C7.
Malformed(d) ==
  d.yaml_ok /\ (d.missing \in {"context.version", "package.name"}
                \/ \E j \in 1..Len(d.sources) : ~d.sources[j].is_dict)

\* C7: every malformed descriptor main has processed is recorded as an error
\* that identifies it.
C7_MalformedIsRecorded ==
  \A i \in Finished :
    Malformed(recipes[i]) =>
      \E k \in 1..Len(stats.error_details) :
        stats.error_details[k][1] \in {recipes[i].name, "recipe.yaml"}

\* ------------------------------------------------------------------------
\* Properties of the selection
\* ------------------------------------------------------------------------

\* C8: when every extracted version parses as a semantic version, the sort of
\* the releases/tags resolvers returns a candidate of maximum semantic
\* version, the earliest in listing order among those tied at the maximum.
C8_MaxSemverEarliestTie ==
  (/\ spc = "selected" /\ resolver \in {"github_plugin", "version_ctl"}
   /\ valid # <<>> /\ AllParse(valid)) =>
    \E i \in DOMAIN valid :
      /\ latest = valid[i]
      /\ \A k \in DOMAIN valid :
           SemverCompare(valid[i].version, valid[k].version) >= 0
      /\ \A k \in 1..(i - 1) :
           SemverCompare(valid[k].version, valid[i].version) < 0

C8_Witness ==
  /\ spc = "selected" /\ resolver = "github_plugin" /\ AllParse(valid)
  /\ \E i, k \in DOMAIN valid :
       /\ i < k
       /\ valid[i].version = latest.version /\ valid[k].version = latest.version
       /\ valid[i].tag_name # valid[k].tag_name
  /\ \E i \in DOMAIN valid : SemverCompare(valid[i].version, latest.version) < 0

\* C9: when some candidate version does not parse as a semantic version, the
\* selection returns the head of the descending string order over all the
\* candidates.
C9_LexicographicFallback ==
  (spc = "selected" /\ valid # <<>> /\ ~AllParse(valid)) =>
    \E i \in DOMAIN valid :
      /\ latest = valid[i]
      /\ \A k \in DOMAIN valid : ~StrLess(valid[i].version, valid[k].version)

\* C10: with the tags v1.2.0, v1.10.0, v1.9.0, none of a draft or a
\* prerelease, and the pattern ^v(\d+\.\d+\.\d+) the resolver selects
\* version 1.10.0.
C10_VPatternSelects ==
  (/\ spc = "selected" /\ resolver \in {"github_plugin", "version_ctl"}
   /\ tags = <<TagV120, TagV1100, TagV190>> /\ drafts = {}
   /\ version_patterns = <<VPattern>>) =>
    latest.version = V1100

\* C11: a tag made of the package name, a separator and a rest is cleaned to
\* what the clean-up makes of the rest, in every resolver.
C11_PackagePrefixRemoved ==
  spc \in {"filtered", "selected"} =>
    \A i \in DOMAIN cleaned :
      (StartsWith(tags[i], PackageName) /\ Len(tags[i]) > Len(PackageName)) =>
        cleaned[i] = CleanFor(resolver, DropFirst(tags[i], Len(PackageName) + 1))

\* C12: the clean-up of GitHubPlugin and of GitPlugin is idempotent: cleaning
\* a cleaned tag name returns it unchanged.
C12_CleanIdempotent ==
  (spc \in {"filtered", "selected"} /\ resolver \in {"github_plugin", "git_plugin"}) =>
    \A i \in DOMAIN cleaned : CleanFor(resolver, cleaned[i]) = cleaned[i]

\* Whether a url text holds a version placeholder.
HasPlaceholder(url) ==
  \E k \in DOMAIN url : url[k].kind \in {PhDollar.kind, PhPlain.kind}

\* C13: a source url that is a template holding a version placeholder is
\* still that template text in the file after an update has been written.
C13_TemplatePreserved ==
  \A i \in 1..NumRecipes : \A j \in DOMAIN files[i].url :
    HasPlaceholder(FileOf(recipes[i]).url[j]) =>
      files[i].url[j] = FileOf(recipes[i]).url[j]

\* An update of a template source was written: the version of the file moved.
C13_Witness ==
  /\ call.outcome = "updated"
  /\ \E i \in 1..NumRecipes :
       /\ files[i].version # recipes[i].version
       /\ \E j \in DOMAIN files[i].url : HasPlaceholder(files[i].url[j])

\* ------------------------------------------------------------------------
\* Properties of the dispatch
\* ------------------------------------------------------------------------

\* The plugins whose can_handle accepts a URL.
Accepting(url) == {n \in PluginNames : CanHandle(n, url)}

\* C14: get_plugin_for_url returns the first plugin in registration order
\* whose can_handle is true, None exactly when no registered plugin's
\* can_handle is true, and never a plugin whose can_handle is false.
C14_FirstAcceptingPlugin ==
  (entry = "manager" /\ plugin # "") =>
    /\ plugin = "None" <=> Accepting(source_url) = {}
    /\ plugin # "None" =>
         \E i \in DOMAIN plugins :
           /\ plugins[i] = plugin
           /\ plugin \in Accepting(source_url)
           /\ \A k \in 1..(i - 1) : plugins[k] \notin Accepting(source_url)

\* A plugin was returned that is not the first one registered.
C14_Witness ==
  /\ entry = "manager" /\ plugin \notin {"", "None"}
  /\ plugins[1] # plugin

\* C15: at most one plugin accepts a URL, GitPlugin accepts no URL that names
\* github.com, and the plugin returned does not depend on registration order.
C15_MutuallyExclusive ==
  (entry = "manager" /\ plugin # "") =>
    /\ Cardinality(Accepting(source_url)) <= 1
    /\ Contains(source_url, GithubCom) => ~GitCanHandle(source_url)
    /\ \A order \in Permutations3(PluginNames) :
         FirstPlugin(order, source_url) = plugin

\* C17: get_latest_version of the plugin a URL was dispatched to returns a
\* VersionInfo or None and never raises.
C17_ResolverNeverRaises ==
  (entry = "manager" /\ plugin \in PluginNames) => result # "raised"

\* C18: with an explicit mode only the matching listing of GitHub is queried:
\* the releases listing for github-release, the tags listing for
\* github-tags, and when it gives nothing the result is None.
C18_ExplicitModeNoFallback ==
  ((entry = "ctl" \/ plugin = "github") /\ dpc = "done" /\ queried # <<>>) =>
    /\ mode = "github-release" => queried = <<"releases">>
    /\ mode = "github-tags" => queried = <<"tags">>

\* ------------------------------------------------------------------------
\* Properties of one update_recipe_source call
\* ------------------------------------------------------------------------

\* No resolver exists for the URL: it names neither github.com nor
\* rubygems.org.
Unclaimed(url) == ~Contains(url, GithubCom) /\ ~Contains(url, RubygemsOrg)

\* The call went past the resolution and has ended.
EndedPastResolution ==
  call.outcome \in {"no_upstream", "up_to_date", "would_update", "updated",
                    "hash_failed", "git_unimplemented", "exception"}

\* The source entry of the call that is past the resolution.
ResolvedSource ==
  IF pc \in {"hash", "write"} THEN CurSource
  ELSE Unwrap(Sources(recipes[Loaded])[log[Len(log)].src])

\* For no order of registration does the plugin manager find a plugin for a
\* URL that no plugin accepts.
ManagerDeclines ==
  \A order \in Permutations3(PluginNames) : \A url \in SourceUrls :
    Accepting(url) = {} => FirstPlugin(order, url) = "None"

\* C16: for a source URL no resolver claims, the resolution returns None
\* without querying anything and without raising; update_recipe_source
\* records the error under the package name, returns to the loop and writes
\* nothing.  (The plugin manager returns None for such a URL as well.)
C16_UnclaimedUrlReported ==
  /\ ManagerDeclines
  /\ ((pc \in {"hash", "write"} \/ EndedPastResolution)
       /\ Unclaimed(UrlText(ResolvedSource.url))) =>
       /\ call.outcome = "no_upstream"
       /\ call.upstream = NoVer /\ ~call.invoked
       /\ files = call.before /\ writes = call.writes0
       /\ pc \in {"loop", "source", "done"}
       /\ \E k \in DOMAIN stats.error_details :
            stats.error_details[k] =
              <<recipes[Loaded].name, "Could not determine upstream version">>

\* A call for a URL on an unknown host ended without an upstream version.
C16_Witness ==
  /\ call.outcome = "no_upstream" /\ ~call.invoked
  /\ Unclaimed(UrlText(ResolvedSource.url))

\* The counters of UpdateStats the conda-forge block may change.
CondaCounterNames ==
  {"packages_on_conda_forge", "packages_not_on_conda_forge", "conda_forge_newer"}

\* The calls for the recipe loaded ended, and its file is, as for the same
\* recipe with a package conda-forge does not hold: as the source entry, the
\* current version and the upstream answers determine.
CondaFreeResult ==
  visited # {} =>
    LET d == [recipes[Loaded] EXCEPT !.conda = NoVer] IN
    /\ \A k \in 1..Len(log) :
         log[k].outcome = AloneOutcome(d, log[k], DryRun(args))
    /\ files[Loaded] = AloneFile(d, log)

\* The conda-forge step changes the conda-forge counters only, writes nothing
\* and goes on to the upstream resolution whenever there is a source URL.
CondaOnlyCounts ==
  pc = "conda" =>
    /\ \A f \in (DOMAIN stats) \ CondaCounterNames : stats'[f] = stats[f]
    /\ files' = files /\ writes' = writes
    /\ IF CurSource.url = <<>>
       THEN call'.outcome = "no_url"
       ELSE pc' = "resolve" /\ call'.outcome = call.outcome

\* C19: the conda-forge lookup never gates the update decision: the upstream
\* resolution, the outcome of the call and the file written do not depend on
\* what conda-forge holds; only the conda-forge counters do.
C19_CondaNeverGates == [](CondaFreeResult) /\ [][CondaOnlyCounts]_vars

\* An update was written for a package of which conda-forge holds a newer
\* version than the recipe.
C19_Witness ==
  /\ call.outcome = "updated"
  /\ CondaNewer(recipes[Loaded].conda, call.replaced)
  /\ stats.conda_forge_newer > 0

\* The steps of one call in the order the code has them.
StepOrder == <<"conda", "resolve", "hash", "write">>

\* C20: the steps of a call occur in the order conda-forge lookup, upstream
\* resolution, hash computation, file write, none skipped: a write comes
\* after a hash computation of the same call that gave a hash, a hash
\* computation after a resolution that returned a version, and a resolution
\* after the conda-forge lookup; the file changes only with the write.
C20_StepsInOrder ==
  /\ Len(call.steps) <= Len(StepOrder)
  /\ call.steps = SubSeq(StepOrder, 1, Len(call.steps))
  /\ Len(call.steps) = 4 => call.hashed /\ call.new_hash # NoHash
  /\ Len(call.steps) >= 3 => call.upstream # NoVer
  /\ (call.outcome # "none" /\ Len(call.steps) < 4) =>
       files = call.before /\ writes = call.writes0
  /\ pc = "resolve" => call.steps = <<"conda">>
  /\ pc = "hash" => call.steps = <<"conda", "resolve">>
  /\ pc = "write" => call.steps = <<"conda", "resolve", "hash">>

\* A call went through all four steps.
C20_Witness == call.steps = StepOrder /\ call.outcome = "updated"

\* C22: of a source list only the first entry is processed: no later entry
\* reaches the conda-forge lookup, the upstream resolution, the hash
\* computation or the write, and none ends a call that resolved anything.
C22_FirstSourceOnly ==
  /\ pc \in {"conda", "resolve", "hash", "write"} => sidx = 1
  /\ \A k \in DOMAIN log :
       log[k].src > 1 =>
         /\ log[k].upstream = NoVer /\ ~log[k].downloaded
         /\ log[k].outcome \notin {"up_to_date", "would_update", "updated",
                                    "no_upstream", "hash_failed"}

\* ------------------------------------------------------------------------
\* Properties of the rewrite
\* ------------------------------------------------------------------------

\* C23: the file written differs from the file read only in the value of
\* context.version, now the upstream version in quotes, and in the sha256
\* value; every other character, comments, other version: lines and the
\* final newline included, is unchanged.
C23_OnlyVersionAndShaChange ==
  rpc = "written" =>
    disk = recipe_file.pre \o <<"\"">> \o upstream_version \o <<"\"">>
           \o recipe_file.mid \o fetched_hash \o recipe_file.post

\* What is left of a tag name once its one prefix family is cut off: the
\* whole word version or release, compared without case, or else one leading
\* v or V.
WithoutPrefixFamily(tag_name) ==
  LET word(w) == StartsWith(Lower(tag_name), w) IN
  IF word(<<"v", "e", "r", "s", "i", "o", "n">>)
     \/ word(<<"r", "e", "l", "e", "a", "s", "e">>)
  THEN DropFirst(tag_name, 7)
  ELSE IF word(<<"v">>) THEN DropFirst(tag_name, 1) ELSE tag_name

\* C24: the clean-up of GitHubPlugin and of GitPlugin cuts exactly one prefix
\* family off a tag name that does not start with the package name: the
\* whole word version or release, or else a single leading v or V.
C24_OnePrefixFamily ==
  (spc \in {"filtered", "selected"} /\ resolver \in {"github_plugin", "git_plugin"}) =>
    \A i \in DOMAIN cleaned :
      ~StartsWith(tags[i], PackageName) => cleaned[i] = WithoutPrefixFamily(tags[i])

\* A resolution with no mode given whose first listing is the releases.
AutoReleases ==
  mode = "None" /\ queried # <<>> /\ queried[1] = "releases"

\* C25: with no mode given, the tags of a GitHub repository are listed if
\* and only if its releases gave no candidate: a candidate of the releases
\* is returned with no tags listed, and otherwise the tags are listed next
\* and what they give, a candidate or none, is what is returned.
C25_TagsIffNoRelease ==
  /\ [](/\ (dpc = "done" /\ AutoReleases) =>
            \/ queried = <<"releases">> /\ result = "VersionInfo"
            \/ queried = <<"releases", "tags">> /\ result \in {"VersionInfo", "None"}
        /\ (dpc = "tags" /\ mode = "None") =>
            queried = <<"releases">> /\ result = "pending")
  /\ [][(dpc = "tags" /\ mode = "None") =>
          /\ dpc' = "done"
          /\ queried' = <<"releases", "tags">>
          /\ result' \in {"VersionInfo", "None"}]_vars

C25_Witness ==
  /\ dpc = "done" /\ AutoReleases /\ entry = "manager" /\ plugin = "github"
  /\ queried = <<"releases", "tags">> /\ result = "VersionInfo"

\* C26: the releases resolvers return no candidate of a release marked draft
\* or prerelease: such a release is neither cleaned nor filtered, every
\* candidate carries the tag of a release not so marked, and a listing of
\* marked releases only gives none.
C26_NoDraftCandidate ==
  (spc \in {"filtered", "selected"} /\ resolver \in {"github_plugin", "version_ctl"}) =>
    /\ DOMAIN cleaned \cap drafts = {}
    /\ Len(valid) <= Cardinality(DOMAIN tags \ drafts)
    /\ \A k \in DOMAIN valid :
         \E i \in DOMAIN tags \ drafts : tags[i] = valid[k].tag_name
    /\ (spc = "selected" /\ latest # None) =>
         \E i \in DOMAIN tags \ drafts : tags[i] = latest.tag_name
    /\ (spc = "selected" /\ drafts = DOMAIN tags) => latest = None

\* A marked release carries the highest version of the listing and the
\* resolver returns the lower one.
C26_Witness ==
  /\ spc = "selected" /\ resolver = "github_plugin"
  /\ tags = <<TagV120, TagV1100>> /\ drafts = {2}
  /\ latest.version = V120

\* The descriptor d with every conditional entry of its source replaced by
\* the entry under then.
Bare(d) ==
  [d EXCEPT !.sources = [j \in DOMAIN d.sources |->
                           IF "if" \in d.sources[j].keys
                           THEN d.sources[j].then[1] ELSE d.sources[j]]]

\* update_recipe_source is entered for a conditional entry.
AtConditional ==
  pc = "source" /\ "if" \in Sources(recipes[idx])[sidx].keys

\* The first checks on a conditional entry count what they count for the
\* entry under then: nothing, but for an entry with neither url, git nor
\* path.
ConditionalEntryCounts ==
  AtConditional =>
    LET S == Sources(recipes[idx])[sidx].then[1] IN
    stats' = IF S.keys \cap {"path", "url", "git"} # {} THEN stats
             ELSE Bump(stats, "unsupported_sources")

\* C27: a conditional entry {if, then: S} is processed as the bare entry S:
\* every call for the recipe last loaded ends as it ends for the descriptor
\* with S in place of the conditional under the same answers of the network,
\* the file holds what is written for that descriptor, and the first checks
\* count what they count for S.
C27_ConditionalAsBare ==
  /\ [](visited # {} =>
          LET d == recipes[Loaded] IN
          /\ \A k \in 1..Len(log) :
               log[k].outcome = AloneOutcome(Bare(d), log[k], DryRun(args))
          /\ FileOf(Bare(d)) = FileOf(d)
          /\ files[Loaded] = AloneFile(Bare(d), log))
  /\ [][ConditionalEntryCounts]_vars

\* A conditional url entry has been updated, a conditional path entry
\* skipped and a conditional git entry resolved.
C27_Witness ==
  \/ /\ Len(log) = 2 /\ log[2].outcome = "updated"
     /\ recipes[Loaded].name = "multi"
  \/ /\ Len(log) = 5 /\ log[4].outcome = "skipped"
     /\ log[5].outcome = "git_unimplemented"
     /\ recipes[Loaded].name = "mixed"

\* C28: GitPlugin._get_latest_tag returns the candidate of greatest semantic
\* version among the tags matching the patterns, whatever the order in which
\* the remote holds them.
C28_GitTagGreatestSemver ==
  (spc = "selected" /\ resolver = "git_plugin" /\ valid # <<>> /\ AllParse(valid)) =>
    /\ \E i \in DOMAIN valid : latest = valid[i]
    /\ \A k \in DOMAIN valid : SemverCompare(latest.version, valid[k].version) >= 0

\* C29: the gem resolver returns none when the registry's latest version
\* matches no pattern, and otherwise a candidate whose version is what the
\* first matching pattern extracts and whose download URL is
\* https://rubygems.org/downloads/<gem>-<v>.gem with v that version.
C29_GemUrlCarriesVersion ==
  (spc = "selected" /\ resolver = "rubygem_plugin") =>
    LET v == IF tags = <<>> THEN <<>>
             ELSE FirstMatch(PatternsOrDefault(version_patterns), tags[1])
    IN IF v = <<>> THEN latest = None
       ELSE /\ latest.version = v
            /\ download_url =
                 <<"h", "t", "t", "p", "s", ":", "/", "/", "r", "u", "b", "y", "g", "e",
                   "m", "s", ".", "o", "r", "g", "/", "d", "o", "w", "n", "l", "o", "a",
                   "d", "s", "/", "p", "k", "g", "-">> \o latest.version
                 \o <<".", "g", "e", "m">>

\* C30: when main has processed the batch the statistics are consistent:
\* packages_updated + packages_up_to_date + packages_with_errors is at most
\* total_packages, packages_updated is at most upstream_newer, and
\* packages_with_errors is the number of entries of error_details.
C30_StatsConsistent ==
  pc = "done" =>
    /\ stats.packages_updated + stats.packages_up_to_date
         + stats.packages_with_errors <= stats.total_packages
    /\ stats.packages_updated <= stats.upstream_newer
    /\ stats.packages_with_errors = Len(stats.error_details)

====
